---- MODULE Spec2Model ----
(***************************************************************************)
(* Skyscrapers puzzle: the engine of logic.py (grid, clues, move           *)
(* validation, visibility counting, MRV backtracking search) and the event *)
(* handlers of gui.py that drive it.                                       *)
(*                                                                         *)
(* The recursive searches (_solve_helper, _solve_step) are modelled with   *)
(* an explicit stack of frames, one frame per active call, and advance one *)
(* candidate probe at a time: the position of the program inside the       *)
(* recursion is part of the state.                                         *)
(***************************************************************************)
EXTENDS Integers, Sequences, FiniteSets, TLC

(***************************************************************************)
(* logic.py                                                                *)
(***************************************************************************)

\* GRID_SIZE = 6
GRID_SIZE == 6

\* range(GRID_SIZE)
Idx == 0 .. (GRID_SIZE - 1)

\* a Python list of GRID_SIZE entries as a function on range(GRID_SIZE)
ListOf(t) == [i \in Idx |-> t[i + 1]]

\* __init__: self.grid, all cells 0
EmptyGrid == [r \in Idx |-> [c \in Idx |-> 0]]

\* __init__: self.clues
BuiltinClues ==
    [top    |-> ListOf(<<1, 2, 2, 3, 4, 3>>),
     right  |-> ListOf(<<4, 3, 1, 2, 3, 2>>),
     bottom |-> ListOf(<<3, 3, 2, 1, 3, 2>>),
     left   |-> ListOf(<<1, 2, 4, 2, 3, 2>>)]

\* grid[row] as a list
RowOf(g, row) == [i \in 1 .. GRID_SIZE |-> g[row][i - 1]]

\* [grid[row][col] for row in range(GRID_SIZE)]
ColumnOf(g, col) == [i \in 1 .. GRID_SIZE |-> g[i - 1][col]]

\* line[::-1]
Reversed(line) == [i \in 1 .. Len(line) |-> line[Len(line) + 1 - i]]

\* 0 in line
HasZero(line) == \E i \in 1 .. Len(line) : line[i] = 0

\* the scan counting an entry that equals the running maximum as visible
RECURSIVE ScanVisibleNotLower(_, _, _, _)
ScanVisibleNotLower(line, i, visible, max_height) ==
    IF i > Len(line) THEN visible
    ELSE IF line[i] >= max_height
         THEN ScanVisibleNotLower(line, i + 1, visible + 1, line[i])
         ELSE ScanVisibleNotLower(line, i + 1, visible, max_height)

\* the for loop of check_visibility_from_direction, from entry i on
RECURSIVE ScanVisible(_, _, _, _)
ScanVisible(line, i, visible, max_height) ==
    IF i > Len(line) THEN visible
    ELSE IF line[i] > max_height
         THEN ScanVisible(line, i + 1, visible + 1, line[i])
         ELSE ScanVisible(line, i + 1, visible, max_height)

check_visibility_from_direction(line) ==
    IF HasZero(line) THEN -1 ELSE ScanVisible(line, 1, 0, 0)

check_visibility_constraints(cl, g) ==
    /\ \A col \in Idx :
          LET column == ColumnOf(g, col) IN
          HasZero(column)
          \/ ~ (\/ check_visibility_from_direction(column) # cl.top[col]
                \/ check_visibility_from_direction(Reversed(column)) # cl.bottom[col])
    /\ \A row \in Idx :
          LET line == RowOf(g, row) IN
          HasZero(line)
          \/ ~ (\/ check_visibility_from_direction(line) # cl.left[row]
                \/ check_visibility_from_direction(Reversed(line)) # cl.right[row])

\* is_valid_move without the scan of the column
is_valid_move_row_only(cl, g, row, col, num, check_visibility) ==
    IF num < 1 \/ num > 6 THEN FALSE
    ELSE IF \E i \in Idx : i # col /\ g[row][i] = num
         THEN FALSE
    ELSE IF check_visibility
            /\ ~ check_visibility_constraints(cl, [g EXCEPT ![row][col] = num])
         THEN FALSE
    ELSE TRUE

is_valid_move(cl, g, row, col, num, check_visibility) ==
    IF num < 1 \/ num > 6 THEN FALSE
    ELSE IF \E i \in Idx : \/ (i # col /\ g[row][i] = num)
                           \/ (i # row /\ g[i][col] = num)
         THEN FALSE
    ELSE IF check_visibility
            /\ ~ check_visibility_constraints(cl, [g EXCEPT ![row][col] = num])
         THEN FALSE
    ELSE TRUE

\* check_win without the test for empty cells
check_win_skipping_empty_test(cl, g) == check_visibility_constraints(cl, g)

check_win(cl, g) ==
    IF \E r \in Idx : HasZero(RowOf(g, r)) THEN FALSE
    ELSE check_visibility_constraints(cl, g)

\* sum(1 for num in range(1, GRID_SIZE + 1) if self.is_valid_move(row, col, num))
valid_count(cl, g, row, col) ==
    Cardinality({num \in 1 .. GRID_SIZE : is_valid_move(cl, g, row, col, num, FALSE)})

\* Python's None
None == <<>>

\* float('inf') of get_mrv: above every valid_count
Infinity == GRID_SIZE + 1

\* the scan taking a later cell of equal count as the new best
RECURSIVE MrvScanLastLeast(_, _, _, _, _)
MrvScanLastLeast(cl, g, k, min_remaining, best_pos) ==
    IF k >= GRID_SIZE * GRID_SIZE THEN best_pos
    ELSE LET row == k \div GRID_SIZE
             col == k % GRID_SIZE
         IN  IF g[row][col] = 0
             THEN LET vc == valid_count(cl, g, row, col) IN
                  IF vc > 0 /\ vc <= min_remaining
                  THEN MrvScanLastLeast(cl, g, k + 1, vc, <<row, col>>)
                  ELSE MrvScanLastLeast(cl, g, k + 1, min_remaining, best_pos)
             ELSE MrvScanLastLeast(cl, g, k + 1, min_remaining, best_pos)

\* the two nested for loops of get_mrv from cell number k (row-major) on,
\* carrying min_remaining and best_pos
RECURSIVE MrvScan(_, _, _, _, _)
MrvScan(cl, g, k, min_remaining, best_pos) ==
    IF k >= GRID_SIZE * GRID_SIZE THEN best_pos
    ELSE LET row == k \div GRID_SIZE
             col == k % GRID_SIZE
         IN  IF g[row][col] = 0
             THEN LET vc == valid_count(cl, g, row, col) IN
                  IF vc > 0 /\ vc < min_remaining
                  THEN MrvScan(cl, g, k + 1, vc, <<row, col>>)
                  ELSE MrvScan(cl, g, k + 1, min_remaining, best_pos)
             ELSE MrvScan(cl, g, k + 1, min_remaining, best_pos)

get_mrv(cl, g) == MrvScan(cl, g, 0, Infinity, None)

\* make_move: the grid it leaves and the value it returns
make_move(cl, g, row, col, num) ==
    IF is_valid_move(cl, g, row, col, num, FALSE)
    THEN [grid |-> [g EXCEPT ![row][col] = num], ret |-> TRUE]
    ELSE [grid |-> g, ret |-> FALSE]

clear_cell(g, row, col) == [g EXCEPT ![row][col] = 0]

(***************************************************************************)
(* The call stack of a search: one frame [row, col, num] per active call   *)
(* that is inside its for loop, num the candidate of the current           *)
(* iteration; the last frame is the innermost call.                        *)
(***************************************************************************)
Top(stk) == stk[Len(stk)]
Pop(stk) == SubSeq(stk, 1, Len(stk) - 1)
Frame(pos) == [row |-> pos[1], col |-> pos[2], num |-> 1]
NextNum(stk) == [stk EXCEPT ![Len(stk)].num = @ + 1]

(***************************************************************************)
(* logic.py _solve_helper.  Each operator yields [grid, stack, status]:    *)
(* status "run" when the search stands before the next candidate probe,    *)
(* "true"/"false" when the outermost call has returned.                    *)
(***************************************************************************)

\* the search given up at the first exhausted for loop: False is returned
\* through every caller, none of which goes on with its own loop
helper_continue_abandon(g, stk) ==
    IF Top(stk).num < GRID_SIZE
    THEN [grid |-> g, stack |-> NextNum(stk), status |-> "run"]
    ELSE [grid |-> g, stack |-> <<>>, status |-> "false"]

\* the caller goes on with its loop without the backtracking write
RECURSIVE helper_continue_no_revert(_, _)
helper_continue_no_revert(g, stk) ==
    IF Top(stk).num < GRID_SIZE
    THEN [grid |-> g, stack |-> NextNum(stk), status |-> "run"]
    ELSE LET rest == Pop(stk) IN
         IF rest = <<>> THEN [grid |-> g, stack |-> rest, status |-> "false"]
         ELSE helper_continue_no_revert(g, rest)

\* the innermost call's iteration is over without success: next candidate,
\* or the for loop is exhausted and the call returns False to its caller,
\* which backtracks (grid[row][col] = 0) and goes on with its own loop
RECURSIVE helper_continue(_, _)
helper_continue(g, stk) ==
    IF Top(stk).num < GRID_SIZE
    THEN [grid |-> g, stack |-> NextNum(stk), status |-> "run"]
    ELSE LET rest == Pop(stk) IN
         IF rest = <<>> THEN [grid |-> g, stack |-> rest, status |-> "false"]
         ELSE helper_continue([g EXCEPT ![Top(rest).row][Top(rest).col] = 0], rest)

\* a call of _solve_helper made with callers stk: check_win, get_mrv, and
\* the entry into the for loop
helper_enter(cl, g, stk) ==
    IF check_win(cl, g) THEN [grid |-> g, stack |-> <<>>, status |-> "true"]
    ELSE LET pos == get_mrv(cl, g) IN
         IF pos = None
         THEN IF stk = <<>> THEN [grid |-> g, stack |-> stk, status |-> "false"]
              ELSE helper_continue([g EXCEPT ![Top(stk).row][Top(stk).col] = 0], stk)
         ELSE [grid |-> g, stack |-> Append(stk, Frame(pos)), status |-> "run"]

\* one iteration of the for loop of the innermost call
helper_probe(cl, g, stk) ==
    LET f == Top(stk) IN
    IF is_valid_move(cl, g, f.row, f.col, f.num, TRUE)
    THEN helper_enter(cl, [g EXCEPT ![f.row][f.col] = f.num], stk)
    ELSE helper_continue(g, stk)

(***************************************************************************)
(* gui.py _solve_step, between two polls of the event queue (the stop flag *)
(* is clear).  Each operator yields [grid, stack, status, current_try].    *)
(***************************************************************************)

RECURSIVE step_continue(_, _, _)
step_continue(g, stk, try) ==
    IF Top(stk).num < GRID_SIZE
    THEN [grid |-> g, stack |-> NextNum(stk), status |-> "run", current_try |-> try]
    ELSE LET rest == Pop(stk) IN
         \* self.current_try = None; return False
         IF rest = <<>>
         THEN [grid |-> g, stack |-> rest, status |-> "false", current_try |-> None]
         ELSE step_continue([g EXCEPT ![Top(rest).row][Top(rest).col] = 0], rest, None)

step_enter(cl, g, stk, try) ==
    IF check_win(cl, g)
    THEN [grid |-> g, stack |-> <<>>, status |-> "true", current_try |-> try]
    ELSE LET pos == get_mrv(cl, g) IN
         IF pos = None
         THEN IF stk = <<>>
              THEN [grid |-> g, stack |-> stk, status |-> "false", current_try |-> try]
              ELSE step_continue([g EXCEPT ![Top(stk).row][Top(stk).col] = 0], stk, try)
         ELSE [grid |-> g, stack |-> Append(stk, Frame(pos)), status |-> "run",
               current_try |-> pos]

step_probe(cl, g, stk, try) ==
    LET f == Top(stk) IN
    IF is_valid_move(cl, g, f.row, f.col, f.num, TRUE)
    THEN step_enter(cl, [g EXCEPT ![f.row][f.col] = f.num], stk, try)
    ELSE step_continue(g, stk, try)

\* the caller backtracks (grid[row][col] = 0) before it looks at the stop flag
step_stopped_return_reverting(g, stk) ==
    [grid |-> [g EXCEPT ![Top(stk).row][Top(stk).col] = 0], stack |-> Pop(stk)]

\* a caller of _solve_step gets False back while the stop flag is set:
\* "if self.stop_solving: return False", before the backtracking write
step_stopped_return(g, stk) == [grid |-> g, stack |-> Pop(stk)]

(***************************************************************************)
(* gui.py / main.py                                                        *)
(***************************************************************************)

\* main.py: WINDOW_SIZE = 800
WINDOW_SIZE == 800

\* GameGUI.__init__: self.cell_size, self.offset
cell_size == WINDOW_SIZE \div (GRID_SIZE + 4)
offset == cell_size * 2

\* pygame's key codes
K_BACKSPACE == 8
K_RETURN == 13
K_SPACE == 32
K_0 == 48
K_1 == 49
K_6 == 54
K_9 == 57
K_s == 115
K_v == 118
K_DELETE == 127

MsgEnter == "Enter clues (1-6) around the edges. Press ENTER when done."
MsgComplete == "Setup complete! Start playing or press SPACE/V to solve"
MsgNotSet == "All clues must be set before starting!"

get_clue_from_mouse(pos) ==
    LET x == pos[1]
        y == pos[2]
        idx_x == (x - offset) \div cell_size
        idx_y == (y - offset) \div cell_size
    IN  IF y < offset
        THEN IF 0 <= idx_x /\ idx_x < GRID_SIZE THEN <<"top", idx_x>> ELSE None
        ELSE IF y > offset + GRID_SIZE * cell_size
        THEN IF 0 <= idx_x /\ idx_x < GRID_SIZE THEN <<"bottom", idx_x>> ELSE None
        ELSE IF x < offset
        THEN IF 0 <= idx_y /\ idx_y < GRID_SIZE THEN <<"left", idx_y>> ELSE None
        ELSE IF x > offset + GRID_SIZE * cell_size
        THEN IF 0 <= idx_y /\ idx_y < GRID_SIZE THEN <<"right", idx_y>> ELSE None
        ELSE None

get_cell_from_mouse(pos) ==
    LET grid_x == (pos[1] - offset) \div cell_size
        grid_y == (pos[2] - offset) \div cell_size
    IN  IF 0 <= grid_x /\ grid_x < GRID_SIZE /\ 0 <= grid_y /\ grid_y < GRID_SIZE
        THEN <<grid_y, grid_x>>
        ELSE None

(***************************************************************************)
(* Bounds of the environment                                               *)
(***************************************************************************)

\* searches (SPACE or V) started in one session
MaxSolves == 2

\* the stop key arrives within this many polls of a visualised search
MaxStopPoll == 4

\* heights and length of the lines handed to check_visibility_from_direction
MaxHeight == 4
MaxLine == 4

\* mouse positions clicked: the bottom clue of column 4, and the cell (0,3)
ClickPositions == {<<520, 700>>, <<440, 200>>}

\* keys pressed: the digits 3, 4 and 7 among them
PressedKeys ==
    {K_RETURN, K_SPACE, K_v, K_s, K_BACKSPACE, K_DELETE, K_0 + 3, K_0 + 4, K_0 + 7}

\* the clues entered in setup mode before the session observed here (every
\* entry can be set to any of 1..6 there)
EnteredClues ==
    [top    |-> ListOf(<<5, 2, 4, 3, 2, 1>>),
     right  |-> ListOf(<<1, 2, 2, 3, 3, 2>>),
     bottom |-> ListOf(<<2, 3, 1, 2, 3, 4>>),
     left   |-> ListOf(<<6, 2, 4, 3, 1, 2>>)]

ClueSets == {EnteredClues}

(***************************************************************************)
(* State                                                                   *)
(***************************************************************************)
VARIABLES
    grid,            \* puzzle.grid
    clues,           \* puzzle.clues
    selected_cell,   \* GameGUI fields
    selected_clue,
    solving,
    solved,
    current_try,
    current_num,
    stop_solving,
    setup_mode,
    status_message,
    mode,            \* "idle": in main's event loop; "solve": inside puzzle.solve();
                     \* "vis": inside solve_with_visualization()
    stack,           \* the frames of the running search
    call,            \* the last call that returned: "solve", "_solve_step", "make_move"
    ret,             \* and what it returned
    entry_grid,      \* the grid when the last search was entered
    solves,          \* searches started so far
    polls,           \* polls of the event queue by the running visualised search
    line,            \* argument and result of a check_visibility_from_direction call
    count

vars == <<grid, clues, selected_cell, selected_clue, solving, solved, current_try,
          current_num, stop_solving, setup_mode, status_message, mode, stack, call,
          ret, entry_grid, solves, polls, line, count>>

gui_fields == <<selected_cell, selected_clue, solving, solved, current_try,
                current_num, stop_solving, setup_mode, status_message>>
line_vars == <<line, count>>

\* SkyscraperPuzzle.__init__ and GameGUI.__init__
Constructed ==
    /\ grid = EmptyGrid
    /\ selected_cell = None
    /\ solving = FALSE
    /\ solved = FALSE
    /\ current_try = None
    /\ current_num = None
    /\ stop_solving = FALSE
    /\ setup_mode = TRUE
    /\ selected_clue = None
    /\ status_message = MsgEnter
    /\ mode = "idle"
    /\ stack = <<>>
    /\ call = "none"
    /\ ret = "none"
    /\ entry_grid = EmptyGrid
    /\ solves = 0
    /\ polls = 0

Init ==
    /\ Constructed
    /\ clues \in ClueSets
    /\ line = <<>>
    /\ count = <<>>

(***************************************************************************)
(* handle_click                                                            *)
(***************************************************************************)
HandleClick(pos) ==
    /\ mode = "idle"
    /\ IF setup_mode
       THEN LET clue_pos == get_clue_from_mouse(pos) IN
            IF clue_pos # None
            THEN selected_clue' = clue_pos /\ selected_cell' = None
            ELSE selected_clue' = None /\ UNCHANGED selected_cell
       ELSE LET cell == get_cell_from_mouse(pos) IN
            IF cell # None
            THEN selected_cell' = cell /\ selected_clue' = None
            ELSE UNCHANGED <<selected_cell, selected_clue>>
    /\ UNCHANGED <<grid, clues, solving, solved, current_try, current_num, stop_solving,
                   setup_mode, status_message, mode, stack, call, ret, entry_grid,
                   solves, polls, line_vars>>

(***************************************************************************)
(* handle_key                                                              *)
(***************************************************************************)

\* the setup branch taking every digit key K_1..K_9 as a clue
KeySetupAnyDigit(key) ==
    /\ mode = "idle"
    /\ setup_mode
    /\ IF key = K_RETURN
       THEN LET all_set == \A d \in DOMAIN clues : \A i \in Idx : clues[d][i] # 0 IN
            /\ setup_mode' = (IF all_set THEN FALSE ELSE setup_mode)
            /\ status_message' = (IF all_set THEN MsgComplete ELSE MsgNotSet)
            /\ UNCHANGED clues
       ELSE /\ clues' = IF selected_clue # None /\ K_1 <= key /\ key <= K_9
                        THEN [clues EXCEPT ![selected_clue[1]][selected_clue[2]] = key - K_0]
                        ELSE clues
            /\ UNCHANGED <<setup_mode, status_message>>
    /\ UNCHANGED <<grid, selected_cell, selected_clue, solving, solved, current_try,
                   current_num, stop_solving, mode, stack, call, ret, entry_grid,
                   solves, polls, line_vars>>

\* the setup branch of handle_key
KeySetup(key) ==
    /\ mode = "idle"
    /\ setup_mode
    /\ IF key = K_RETURN
       THEN LET all_set == \A d \in DOMAIN clues : \A i \in Idx : clues[d][i] # 0 IN
            /\ setup_mode' = (IF all_set THEN FALSE ELSE setup_mode)
            /\ status_message' = (IF all_set THEN MsgComplete ELSE MsgNotSet)
            /\ UNCHANGED clues
       ELSE /\ clues' = IF selected_clue # None /\ K_1 <= key /\ key <= K_6
                        THEN [clues EXCEPT ![selected_clue[1]][selected_clue[2]] = key - K_0]
                        ELSE clues
            /\ UNCHANGED <<setup_mode, status_message>>
    /\ UNCHANGED <<grid, selected_cell, selected_clue, solving, solved, current_try,
                   current_num, stop_solving, mode, stack, call, ret, entry_grid,
                   solves, polls, line_vars>>

\* solve_instantly, from the call of puzzle.solve() to the first candidate probe
\* (or to its end, when the search is over at once)
KeySolveInstantly(key) ==
    /\ mode = "idle"
    /\ ~ setup_mode
    /\ key = K_SPACE /\ ~ solving
    /\ solves < MaxSolves
    /\ LET r == helper_enter(clues, grid, <<>>) IN
       /\ grid' = r.grid
       /\ stack' = r.stack
       /\ mode' = (IF r.status = "run" THEN "solve" ELSE "idle")
       /\ call' = (IF r.status = "run" THEN "none" ELSE "solve")
       /\ ret' = (IF r.status = "run" THEN "none" ELSE r.status)
       /\ solved' = (IF r.status = "true" THEN TRUE ELSE solved)
    /\ entry_grid' = grid
    /\ solves' = solves + 1
    /\ UNCHANGED <<clues, selected_cell, selected_clue, solving, current_try,
                   current_num, stop_solving, setup_mode, status_message, polls,
                   line_vars>>

\* the end of solve_with_visualization
VisEnd(status) ==
    /\ solved' = (IF status = "true" THEN TRUE ELSE solved)
    /\ call' = "_solve_step"
    /\ ret' = status
    /\ solving' = FALSE
    /\ current_try' = None
    /\ current_num' = None
    /\ stop_solving' = FALSE
    /\ mode' = "idle"
    /\ polls' = 0

\* solve_with_visualization, up to the first poll of the event queue
KeySolveVisual(key) ==
    /\ mode = "idle"
    /\ ~ setup_mode
    /\ ~ (key = K_SPACE /\ ~ solving)
    /\ key = K_v /\ ~ solving
    /\ solves < MaxSolves
    /\ LET r == step_enter(clues, grid, <<>>, current_try) IN
       /\ grid' = r.grid
       /\ stack' = r.stack
       /\ IF r.status = "run"
          THEN /\ mode' = "vis"
               /\ solving' = TRUE
               /\ stop_solving' = FALSE
               /\ current_try' = r.current_try
               /\ current_num' = Top(r.stack).num
               /\ call' = "none"
               /\ ret' = "none"
               /\ polls' = 0
               /\ UNCHANGED solved
          ELSE VisEnd(r.status)
    /\ entry_grid' = grid
    /\ solves' = solves + 1
    /\ UNCHANGED <<clues, selected_cell, selected_clue, setup_mode, status_message,
                   line_vars>>

\* the rest of handle_key: the stop key, and the keys typed into the selected cell
KeyCell(key) ==
    /\ mode = "idle"
    /\ ~ setup_mode
    /\ ~ (key = K_SPACE /\ ~ solving)
    /\ ~ (key = K_v /\ ~ solving)
    /\ IF key = K_s /\ solving
       THEN stop_solving' = TRUE /\ UNCHANGED <<grid, solved>>
       ELSE /\ UNCHANGED stop_solving
            /\ IF selected_cell = None
               THEN UNCHANGED <<grid, solved>>
               ELSE LET row == selected_cell[1]
                        col == selected_cell[2]
                    IN  IF key \in {K_BACKSPACE, K_DELETE}
                        THEN grid' = clear_cell(grid, row, col) /\ UNCHANGED solved
                        ELSE IF K_1 <= key /\ key <= K_9
                        THEN LET m == make_move(clues, grid, row, col, key - K_0) IN
                             /\ grid' = m.grid
                             /\ solved' = (IF check_win(clues, m.grid) THEN TRUE ELSE solved)
                        ELSE UNCHANGED <<grid, solved>>
    /\ UNCHANGED <<clues, selected_cell, selected_clue, solving, current_try,
                   current_num, setup_mode, status_message, mode, stack, call, ret,
                   entry_grid, solves, polls, line_vars>>

HandleKey(key) ==
    \/ KeySetup(key)
    \/ KeySolveInstantly(key)
    \/ KeySolveVisual(key)
    \/ KeyCell(key)

(***************************************************************************)
(* The running searches                                                    *)
(***************************************************************************)

\* puzzle.solve() goes on: one candidate probe of _solve_helper, and at the
\* end of the search the rest of solve_instantly
SolveProbe ==
    /\ mode = "solve"
    /\ LET r == helper_probe(clues, grid, stack) IN
       /\ grid' = r.grid
       /\ stack' = r.stack
       /\ mode' = (IF r.status = "run" THEN "solve" ELSE "idle")
       /\ call' = (IF r.status = "run" THEN "none" ELSE "solve")
       /\ ret' = (IF r.status = "run" THEN "none" ELSE r.status)
       /\ solved' = (IF r.status = "true" THEN TRUE ELSE solved)
    /\ UNCHANGED <<clues, selected_cell, selected_clue, solving, current_try,
                   current_num, stop_solving, setup_mode, status_message, entry_grid,
                   solves, polls, line_vars>>

\* _solve_step goes on: the poll of the event queue finds no stop key, and
\* the candidate is probed
VisProbe ==
    /\ mode = "vis"
    /\ ~ stop_solving
    /\ LET r == step_probe(clues, grid, stack, current_try) IN
       /\ grid' = r.grid
       /\ stack' = r.stack
       /\ IF r.status = "run"
          THEN /\ current_try' = r.current_try
               /\ current_num' = Top(r.stack).num
               /\ polls' = (IF polls < MaxStopPoll THEN polls + 1 ELSE polls)
               /\ UNCHANGED <<solved, call, ret, solving, stop_solving, mode>>
          ELSE VisEnd(r.status)
    /\ UNCHANGED <<clues, selected_cell, selected_clue, setup_mode, status_message,
                   entry_grid, solves, line_vars>>

\* the poll finds the stop key: self.stop_solving = True; return False
VisStop ==
    /\ mode = "vis"
    /\ ~ stop_solving
    /\ polls < MaxStopPoll
    /\ stop_solving' = TRUE
    /\ stack' = Pop(stack)
    /\ UNCHANGED <<grid, clues, selected_cell, selected_clue, solving, solved,
                   current_try, current_num, setup_mode, status_message, mode, call,
                   ret, entry_grid, solves, polls, line_vars>>

\* the stop flag is set and a call has returned False: its caller returns
\* False in turn, and after the outermost call solve_with_visualization ends
VisUnwind ==
    /\ mode = "vis"
    /\ stop_solving
    /\ IF stack = <<>>
       THEN VisEnd("false") /\ UNCHANGED <<grid, stack>>
       ELSE LET r == step_stopped_return(grid, stack) IN
            /\ grid' = r.grid
            /\ stack' = r.stack
            /\ UNCHANGED <<solving, solved, current_try, current_num, stop_solving,
                           mode, call, ret, polls>>
    /\ UNCHANGED <<clues, selected_cell, selected_clue, setup_mode, status_message,
                   entry_grid, solves, line_vars>>

Next ==
    \/ \E pos \in ClickPositions : HandleClick(pos)
    \/ \E key \in PressedKeys : HandleKey(key)
    \/ SolveProbe
    \/ VisProbe
    \/ VisStop
    \/ VisUnwind

\* a session at the window: clicks, keys, and the searches they start
Spec == Init /\ [][Next]_vars

(***************************************************************************)
(* The engine called directly: make_move and clear_cell on the cells of    *)
(* row 0, from a new puzzle.                                               *)
(***************************************************************************)
MoveCells == {<<0, c>> : c \in Idx}
MoveNums == 0 .. (GRID_SIZE + 1)

CallMakeMove(row, col, num) ==
    /\ mode = "idle"
    /\ LET m == make_move(clues, grid, row, col, num) IN
       /\ grid' = m.grid
       /\ ret' = (IF m.ret THEN "true" ELSE "false")
    /\ call' = "make_move"
    /\ UNCHANGED <<clues, gui_fields, mode, stack, entry_grid, solves, polls, line_vars>>

CallClearCell(row, col) ==
    /\ mode = "idle"
    /\ grid' = clear_cell(grid, row, col)
    /\ UNCHANGED <<clues, gui_fields, mode, stack, call, ret, entry_grid, solves, polls,
                   line_vars>>

NextMoves ==
    \/ \E cell \in MoveCells : \E num \in MoveNums : CallMakeMove(cell[1], cell[2], num)
    \/ \E cell \in MoveCells : CallClearCell(cell[1], cell[2])

SpecMoves == Init /\ [][NextMoves]_vars

(***************************************************************************)
(* check_visibility_from_direction called on a line of heights             *)
(***************************************************************************)
Lines == UNION {[1 .. n -> 0 .. MaxHeight] : n \in 0 .. MaxLine}

InitLine ==
    /\ Constructed
    /\ clues = BuiltinClues
    /\ line \in Lines
    /\ count = <<>>

CallVisibility ==
    /\ count = <<>>
    /\ count' = <<check_visibility_from_direction(line)>>
    /\ UNCHANGED <<grid, clues, gui_fields, mode, stack, call, ret, entry_grid, solves,
                   polls, line>>

NextLine == CallVisibility

SpecLine == InitLine /\ [][NextLine]_vars

(***************************************************************************)
(* Vocabulary of the properties: visible counts, permutations, the         *)
(* satisfying assignments of a clue set                                    *)
(***************************************************************************)

\* entries of l strictly greater than every entry before them
Visible(l) == Cardinality({i \in 1 .. Len(l) : \A j \in 1 .. (i - 1) : l[j] < l[i]})

\* entries of l strictly greater than every entry after them
VisibleFromEnd(l) ==
    Cardinality({i \in 1 .. Len(l) : \A j \in (i + 1) .. Len(l) : l[j] < l[i]})

\* l is a permutation of 1..N
IsPermutation(l) ==
    /\ Len(l) = GRID_SIZE
    /\ \A v \in 1 .. GRID_SIZE : \E i \in 1 .. GRID_SIZE : l[i] = v

\* g is a satisfying assignment of cl
Proper(cl, g) ==
    /\ \A r \in Idx : /\ IsPermutation(RowOf(g, r))
                      /\ Visible(RowOf(g, r)) = cl.left[r]
                      /\ VisibleFromEnd(RowOf(g, r)) = cl.right[r]
    /\ \A c \in Idx : /\ IsPermutation(ColumnOf(g, c))
                      /\ Visible(ColumnOf(g, c)) = cl.top[c]
                      /\ VisibleFromEnd(ColumnOf(g, c)) = cl.bottom[c]

\* the sequences of n distinct heights
RECURSIVE Arrangements(_)
Arrangements(n) ==
    IF n = 0 THEN {<<>>}
    ELSE UNION {{Append(p, v) : v \in (1 .. GRID_SIZE) \ {p[i] : i \in 1 .. Len(p)}} :
                p \in Arrangements(n - 1)}

RowArrangements == Arrangements(GRID_SIZE)

\* the arrangements that show a heights from their start and b from their end
ArrangementsShowing ==
    [a \in 1 .. GRID_SIZE, b \in 1 .. GRID_SIZE |->
        {p \in RowArrangements : Visible(p) = a /\ VisibleFromEnd(p) = b}]

\* the ways to fill rows 0..k-1, each showing its left and right clue, with
\* no height twice in a column
RECURSIVE RowsUpTo(_, _)
RowsUpTo(cl, k) ==
    IF k = 0 THEN {<<>>}
    ELSE UNION {{Append(g, q) : q \in {p \in ArrangementsShowing[cl.left[k - 1], cl.right[k - 1]] :
                                          \A i \in 1 .. (k - 1) :
                                              \A c \in 1 .. GRID_SIZE : g[i][c] # p[c]}} :
                g \in RowsUpTo(cl, k - 1)}

\* all satisfying assignments of cl, each as its sequence of rows
Solutions(cl) ==
    {g \in RowsUpTo(cl, GRID_SIZE) :
        \A c \in 1 .. GRID_SIZE :
            LET column == [i \in 1 .. GRID_SIZE |-> g[i][c]] IN
            Visible(column) = cl.top[c - 1] /\ VisibleFromEnd(column) = cl.bottom[c - 1]}

\* the clue sets a session can hold: the entered ones, with a clicked clue
\* retyped by a pressed digit key
SessionClueSets ==
    ClueSets \cup
    {[cl EXCEPT ![p[1]][p[2]] = key - K_0] :
        cl \in ClueSets,
        p \in {get_clue_from_mouse(pos) : pos \in ClickPositions} \ {None},
        key \in {k \in PressedKeys : K_1 <= k /\ k <= K_6}}

\* those of them with exactly one satisfying assignment
UniqueClueSets == {cl \in SessionClueSets : Cardinality(Solutions(cl)) = 1}

(***************************************************************************)
(* Properties                                                              *)
(***************************************************************************)

\* C1: for every grid, cell and num, make_move(row, col, num) writes num into
\* the cell and returns true exactly when is_valid_move holds with visibility
\* checking enabled; otherwise it returns false and leaves the grid unchanged.
MakeMoveChecksVisibility ==
    [][\A cell \in MoveCells : \A num \in MoveNums :
          CallMakeMove(cell[1], cell[2], num) =>
              IF is_valid_move(clues, grid, cell[1], cell[2], num, TRUE)
              THEN grid' = [grid EXCEPT ![cell[1]][cell[2]] = num] /\ ret' = "true"
              ELSE grid' = grid /\ ret' = "false"]_vars

\* puzzle.solve() returns in this step
SolveReturned ==
    /\ call' = "solve"
    /\ mode' = "idle"
    /\ mode = "solve" \/ solves' # solves

\* C2: for a clue set with a unique satisfying assignment, solve() started on
\* the empty grid returns true, and the grid on return has every row and
\* column a permutation of 1..N and every visible count equal to its clue.
SolveFindsUniqueSolution ==
    [][(SolveReturned /\ entry_grid' = EmptyGrid /\ clues \in UniqueClueSets)
           => (ret' = "true" /\ Proper(clues, grid'))]_vars

SolvedUniquePuzzle ==
    /\ mode = "idle" /\ call = "solve" /\ ret = "true"
    /\ entry_grid = EmptyGrid
    /\ clues \in UniqueClueSets
    /\ Proper(clues, grid)

\* g with the candidates of the calls below the innermost one placed
Placed(g, stk) ==
    [r \in Idx |-> [c \in Idx |->
        IF \E i \in 1 .. (Len(stk) - 1) : stk[i].row = r /\ stk[i].col = c
        THEN stk[CHOOSE i \in 1 .. (Len(stk) - 1) : stk[i].row = r /\ stk[i].col = c].num
        ELSE g[r][c]]]

\* C3: whenever solve() returns false the grid on return equals, cell for
\* cell, the grid on entry; during the search the grid differs from the entry
\* grid exactly by the one cell each active call has placed, so every failed
\* attempt has reverted its cell.
SolveFailureRestoresGrid ==
    [][/\ (SolveReturned /\ ret' = "false") => grid' = entry_grid'
       /\ mode' = "solve" => grid' = Placed(entry_grid', stack')]_vars

SolveFailedAfterSearch ==
    /\ mode = "idle" /\ call = "solve" /\ ret = "false"
    /\ entry_grid # EmptyGrid
    /\ grid = entry_grid

\* C4: after any sequence of moves, clears and solves from the empty grid,
\* check_win() true means no empty cell, every row and column a permutation
\* of 1..N, and every visible count equal to its clue.
CheckWinMeansProper ==
    check_win(clues, grid) =>
        /\ \A r \in Idx : \A c \in Idx : grid[r][c] # 0
        /\ Proper(clues, grid)

WonAfterSolve == mode = "idle" /\ ret = "true" /\ check_win(clues, grid)

\* C6: for every empty cell (r,c) and every v, is_valid_move(r, c, v,
\* check_visibility=False) is true if and only if v lies in 1..N and appears
\* neither in row r nor in column c; v outside 1..N is rejected.
ValidMoveIffAbsent ==
    \A r \in Idx : \A c \in Idx :
        grid[r][c] = 0 =>
            \A v \in MoveNums :
                is_valid_move(clues, grid, r, c, v, FALSE)
                    = (/\ v \in 1 .. GRID_SIZE
                       /\ \A i \in Idx : grid[r][i] # v /\ grid[i][c] # v)

MoveBlockedByRowOrColumn ==
    /\ call = "make_move"
    /\ grid[0][0] # 0 /\ grid[0][1] = 0 /\ grid[1][0] = 0
    /\ ~ is_valid_move(clues, grid, 0, 1, grid[0][0], FALSE)
    /\ ~ is_valid_move(clues, grid, 1, 0, grid[0][0], FALSE)
    /\ is_valid_move(clues, grid, 1, 1, grid[0][0], FALSE)

\* C7: check_visibility_from_direction(line) returns, for a line with no 0,
\* the number of entries strictly greater than every entry before them, and
\* for a line containing a 0 the incomplete result -1.
VisibleCountOrIncomplete ==
    count # <<>> =>
        count[1] = IF \E i \in 1 .. Len(line) : line[i] = 0 THEN -1 ELSE Visible(line)

CountedPartlyHiddenLine ==
    /\ count # <<>>
    /\ Len(line) >= 3
    /\ count[1] >= 2 /\ count[1] < Len(line)

\* C8: once the stop flag is set, every step of the visualised search returns
\* one call with False: no candidate is tried, no call is entered and no grid
\* cell is written, up to the return of the outermost call, so the grid on
\* return is the partial grid of the moment of cancellation.
StopUnwindsWithoutWriting ==
    [][/\ (~ stop_solving /\ stop_solving') => (grid' = grid /\ stack' = Pop(stack))
       /\ stop_solving =>
             /\ grid' = grid
             /\ IF stack # <<>>
                THEN stack' = Pop(stack) /\ stop_solving' /\ mode' = "vis"
                ELSE mode' = "idle" /\ call' = "_solve_step" /\ ret' = "false"]_vars

UnwindingPartialGrid ==
    /\ mode = "vis" /\ stop_solving
    /\ Len(stack) >= 2
    /\ grid # entry_grid

\* C9: once setup mode has been left every clue lies in 1..N, setup mode is
\* never re-entered and no clue changes afterwards; while setup mode is
\* active no grid cell changes and no search starts.
SetupOnceThenFrozen ==
    [][/\ ~ setup_mode => (~ setup_mode' /\ clues' = clues)
       /\ ~ setup_mode' => \A d \in DOMAIN clues' : \A i \in Idx :
                               clues'[d][i] \in 1 .. GRID_SIZE
       /\ setup_mode => (grid' = grid /\ solves' = solves /\ mode' = "idle")]_vars

PlayingWithRetypedClue ==
    /\ ~ setup_mode
    /\ clues # EnteredClues
    /\ grid # EmptyGrid

\* puzzle.solve() or _solve_step returns to its caller in this step
SearchReturned ==
    /\ mode' = "idle"
    /\ call' \in {"solve", "_solve_step"}
    /\ mode # "idle" \/ solves' # solves

\* C10: whenever solve() or the visualised search returns true, and in every
\* state in which the solved flag is true, check_win() holds for the grid.
SolvedMeansWin ==
    [][/\ (SearchReturned /\ ret' = "true") => check_win(clues', grid')
       /\ solved' => check_win(clues', grid')]_vars

\* the cells of the grid, and their place in the row-major scan
Cells == Idx \X Idx
ScanOrder(p) == p[1] * GRID_SIZE + p[2]

\* the empty cells of g
EmptyCells(g) == {p \in Cells : g[p[1]][p[2]] = 0}

\* for each empty cell of g, how many values of 1..N pass is_valid_move with
\* visibility checking off
Remaining(cl, g) ==
    [p \in EmptyCells(g) |->
        Cardinality({v \in 1 .. GRID_SIZE : is_valid_move(cl, g, p[1], p[2], v, FALSE)})]

\* the empty cells of g with at least one such value
Eligible(cl, g) ==
    LET cnt == Remaining(cl, g) IN {p \in DOMAIN cnt : cnt[p] > 0}

\* pos is what the claim lets get_mrv return on g: None when no cell is
\* eligible, else the eligible cell of least count that comes first in the scan
IsMrvOf(pos, cl, g) ==
    LET cnt == Remaining(cl, g)
        elig == {p \in DOMAIN cnt : cnt[p] > 0}
    IN  IF elig = {} THEN pos = None
        ELSE /\ pos \in elig
             /\ g[pos[1]][pos[2]] = 0
             /\ \A q \in elig :
                   \/ cnt[pos] < cnt[q]
                   \/ cnt[pos] = cnt[q] /\ ScanOrder(pos) <= ScanOrder(q)

====
